---- MODULE Spec2Model ----
(***************************************************************************)
(* Gradient descent driver of OptimLib (src/src/unconstrained/gd.cpp):     *)
(* optim::internal::gd_basic_impl, its box-constraint objective adapter    *)
(* (the box_objfn lambda) and the two optim::gd overloads.                 *)
(*                                                                         *)
(* Doubles are modelled by a small binary floating-point format: a 2-bit   *)
(* significand (0,1,2,3 times a power of two), magnitudes up to MaxFinite, *)
(* round-to-nearest-even, overflow to +-Inf, and NaN.  Every arithmetic    *)
(* operation computes the exact result and rounds it once, as IEEE-754     *)
(* does, so absorption (8 - 1 = 8), overflow and NaN propagation all occur *)
(* in the model as they do for doubles.                                    *)
(***************************************************************************)
EXTENDS Integers, Sequences, FiniteSets, TLC

\* largest finite magnitude of the number format
MaxFinite == 8
\* largest iteration cap (settings.iter_max) a caller passes
MaxIter == 2

(***************************************************************************)
(* The number format                                                       *)
(***************************************************************************)
PInf == MaxFinite + 1
NInf == 0 - PInf
NaN == MaxFinite + 2

RECURSIVE IsRep(_)
IsRep(m) == m <= 3 \/ (m % 2 = 0 /\ IsRep(m \div 2))

\* representable magnitudes, with the exponent range extended by one binade
\* so that a result is rounded first and tested for overflow afterwards
RepX == {m \in 0..(2 * MaxFinite) : IsRep(m)}
Rep == {m \in RepX : m <= MaxFinite}
Fin == Rep \cup {0 - m : m \in Rep}
Val == Fin \cup {PInf, NInf, NaN}

SetMax(S) == CHOOSE m \in S : \A k \in S : k <= m
SetMin(S) == CHOOSE m \in S : \A k \in S : m <= k

IsInf(a) == a = PInf \/ a = NInf
IsFiniteVal(a) == a # NaN /\ ~IsInf(a)

\* between two neighbouring magnitudes lo < hi, the one a tie goes to
TieEven(lo, hi) == IF (lo \div (hi - lo)) % 2 = 0 THEN lo ELSE hi

Overflow(m) == IF m > MaxFinite THEN PInf ELSE m

\* the magnitude a / b (a >= 0, b > 0) rounded to nearest, ties to even
RoundRat(a, b) ==
    LET below == {r \in RepX : r * b <= a}
        above == {r \in RepX : r * b >= a}
    IN  IF above = {} THEN PInf
        ELSE LET lo == SetMax(below)
                 hi == SetMin(above)
             IN  Overflow(IF lo = hi THEN lo
                          ELSE IF 2 * a < (lo + hi) * b THEN lo
                          ELSE IF 2 * a > (lo + hi) * b THEN hi
                          ELSE TieEven(lo, hi))

\* the square root of s >= 0 rounded to nearest, ties to even
RoundSqrt(s) ==
    LET below == {r \in RepX : r * r <= s}
        above == {r \in RepX : r * r >= s}
    IN  IF above = {} THEN PInf
        ELSE LET lo == SetMax(below)
                 hi == SetMin(above)
             IN  Overflow(IF lo = hi THEN lo
                          ELSE IF 4 * s < (lo + hi) * (lo + hi) THEN lo
                          ELSE IF 4 * s > (lo + hi) * (lo + hi) THEN hi
                          ELSE TieEven(lo, hi))

IAbs(v) == IF v < 0 THEN 0 - v ELSE v

\* an exact integer result rounded into the format
FRound(v) == IF v < 0 THEN 0 - RoundRat(0 - v, 1) ELSE RoundRat(v, 1)

FNeg(a) == IF a = NaN THEN NaN ELSE 0 - a

FAbs(a) == IF a = NaN THEN NaN ELSE IAbs(a)

FAdd(a, b) ==
    IF a = NaN \/ b = NaN THEN NaN
    ELSE IF IsInf(a) THEN (IF b = 0 - a THEN NaN ELSE a)
    ELSE IF IsInf(b) THEN b
    ELSE FRound(a + b)

FSub(a, b) == FAdd(a, FNeg(b))

FMul(a, b) ==
    IF a = NaN \/ b = NaN THEN NaN
    ELSE IF IsInf(a) \/ IsInf(b)
         THEN (IF a = 0 \/ b = 0 THEN NaN
               ELSE IF (a > 0) = (b > 0) THEN PInf ELSE NInf)
    ELSE FRound(a * b)

FDiv(a, b) ==
    IF a = NaN \/ b = NaN THEN NaN
    ELSE IF IsInf(a) THEN (IF IsInf(b) THEN NaN
                           ELSE IF b >= 0 THEN a ELSE 0 - a)
    ELSE IF IsInf(b) THEN 0
    ELSE IF b = 0 THEN (IF a = 0 THEN NaN ELSE IF a > 0 THEN PInf ELSE NInf)
    ELSE IF (a >= 0) = (b > 0) THEN RoundRat(IAbs(a), IAbs(b))
    ELSE 0 - RoundRat(IAbs(a), IAbs(b))

\* a > b and a <= b on doubles: false whenever an operand is NaN
FGt(a, b) == a # NaN /\ b # NaN /\ a > b
FLe(a, b) == a # NaN /\ b # NaN /\ a <= b

(***************************************************************************)
(* Vectors (Vec_t) and the operations layer (the BMO_MATOPS macros)        *)
(***************************************************************************)
ZeroVec(n) == [i \in 1..n |-> 0]
VSub(u, v) == [i \in 1..Len(u) |-> FSub(u[i], v[i])]
VAdd(u, v) == [i \in 1..Len(u) |-> FAdd(u[i], v[i])]
VScale(c, v) == [i \in 1..Len(v) |-> FMul(c, v[i])]
HadamardProd(u, v) == [i \in 1..Len(u) |-> FMul(u[i], v[i])]
IsFinite(v) == \A i \in 1..Len(v) : IsFiniteVal(v[i])

RECURSIVE SumAbs(_, _)
SumAbs(v, i) == IF i = 0 THEN 0 ELSE FAdd(SumAbs(v, i - 1), FAbs(v[i]))
L1Norm(v) == SumAbs(v, Len(v))

RECURSIVE SumSq(_, _)
SumSq(v, i) == IF i = 0 THEN 0 ELSE SumSq(v, i - 1) + v[i] * v[i]
L2Norm(v) ==
    IF \E i \in 1..Len(v) : v[i] = NaN THEN NaN
    ELSE IF \E i \in 1..Len(v) : IsInf(v[i]) THEN PInf
    ELSE RoundSqrt(SumSq(v, Len(v)))

(***************************************************************************)
(* Bounds Transformer (spec 4.1): transform, inv_transform, the diagonal   *)
(* of jacobian_adjust, and determine_bounds_type.                          *)
(*   lower-only   x = lb + e^w                  dx/dw = e^w                *)
(*   upper-only   x = ub - e^(-w)               dx/dw = e^(-w)             *)
(*   both         x = (lb + ub e^w)/(1 + e^w)   dx/dw = (ub-lb)e^w/(1+e^w)^2 *)
(* Each is computed exactly and rounded once into the number format.       *)
(***************************************************************************)
\* 100 * e^k for k = 1..5
ExpTab == <<272, 739, 2009, 5460, 14841>>
\* 100 * e^(k - 1/2) for k = 1..4: ln r rounds to at least k from there on
HalfExpTab == <<165, 448, 1218, 3311>>

\* 100 * e^|w| for an integer |w| <= 5
ExpNum(w) == IF w = 0 THEN 100 ELSE ExpTab[IAbs(w)]

\* a / b (b > 0) rounded into the format
SRound(a, b) == IF a < 0 THEN 0 - RoundRat(0 - a, b) ELSE RoundRat(a, b)

\* e^w rounded into the format
FExp(w) ==
    IF w = NaN THEN NaN
    ELSE IF w = PInf \/ w > Len(ExpTab) THEN PInf
    ELSE IF w < 0 THEN (IF w = NInf \/ 0 - w > Len(ExpTab) THEN 0 ELSE SRound(100, ExpNum(w)))
    ELSE SRound(ExpNum(w), 100)

\* ln(p / q) rounded to the nearest integer, for integers p and q
FLogRat(p, q) ==
    IF p < 0 \/ q < 0 \/ (p = 0 /\ q = 0) THEN NaN
    ELSE IF p = 0 THEN NInf
    ELSE IF q = 0 THEN PInf
    ELSE IF p >= q
         THEN Cardinality({k \in 1..Len(HalfExpTab) : p * 100 >= HalfExpTab[k] * q})
         ELSE 0 - Cardinality({k \in 1..Len(HalfExpTab) : q * 100 >= HalfExpTab[k] * p})

\* per-coordinate classification: unbounded / lower-only / upper-only / both
determine_bounds_type(vals_bound, n_vals, lower_bounds, upper_bounds) ==
    [i \in 1..n_vals |->
        IF ~vals_bound THEN "unbounded"
        ELSE IF IsFiniteVal(lower_bounds[i]) /\ IsFiniteVal(upper_bounds[i]) THEN "both"
        ELSE IF IsFiniteVal(lower_bounds[i]) THEN "lower"
        ELSE IF IsFiniteVal(upper_bounds[i]) THEN "upper"
        ELSE "unbounded"]

\* bounded space to working space, for a finite v
TransformAt(kind, v, lb, ub) ==
    CASE kind = "unbounded" -> v
      [] kind = "lower" -> FLogRat(v - lb, 1)
      [] kind = "upper" -> FNeg(FLogRat(ub - v, 1))
      [] kind = "both" -> FLogRat(v - lb, ub - v)

\* beyond the table e^|w| exceeds every ratio the format can hold
Huge(w) == IsInf(w) \/ IAbs(w) > Len(ExpTab)

InvTransformAt(kind, w, lb, ub) ==
    IF w = NaN THEN NaN
    ELSE CASE kind = "unbounded" -> w
           [] kind = "lower" ->
                 IF Huge(w) THEN (IF w > 0 THEN PInf ELSE lb)
                 ELSE IF w >= 0 THEN SRound(100 * lb + ExpNum(w), 100)
                 ELSE SRound(lb * ExpNum(w) + 100, ExpNum(w))
           [] kind = "upper" ->
                 IF Huge(w) THEN (IF w > 0 THEN ub ELSE NInf)
                 ELSE IF w >= 0 THEN SRound(ub * ExpNum(w) - 100, ExpNum(w))
                 ELSE SRound(100 * ub - ExpNum(w), 100)
           [] kind = "both" ->
                 IF Huge(w) THEN (IF w > 0 THEN ub ELSE lb)
                 ELSE IF w >= 0 THEN SRound(100 * lb + ub * ExpNum(w), 100 + ExpNum(w))
                 ELSE SRound(lb * ExpNum(w) + 100 * ub, ExpNum(w) + 100)

JacobianAt(kind, w, lb, ub) ==
    IF w = NaN THEN NaN
    ELSE CASE kind = "unbounded" -> 1
           [] kind = "lower" -> FExp(w)
           [] kind = "upper" -> FExp(FNeg(w))
           [] kind = "both" ->
                 \* (ub - lb) e^(-|w|) is below 1/2 from |w| = 4 on
                 IF IsInf(w) \/ IAbs(w) > 3 THEN 0
                 ELSE SRound((ub - lb) * 100 * ExpNum(w),
                             (100 + ExpNum(w)) * (100 + ExpNum(w)))

transform(v, bounds_type, lower_bounds, upper_bounds) ==
    [i \in 1..Len(v) |-> TransformAt(bounds_type[i], v[i], lower_bounds[i], upper_bounds[i])]

inv_transform(w, bounds_type, lower_bounds, upper_bounds) ==
    [i \in 1..Len(w) |-> InvTransformAt(bounds_type[i], w[i], lower_bounds[i], upper_bounds[i])]

\* BMO_MATOPS_EXTRACT_DIAG(jacobian_adjust(...))
jacobian_diag(w, bounds_type, lower_bounds, upper_bounds) ==
    [i \in 1..Len(w) |-> JacobianAt(bounds_type[i], w[i], lower_bounds[i], upper_bounds[i])]

(***************************************************************************)
(* The caller's objective (opt_objfn): a pure function of its input.       *)
(*   "quad"  f(v) = sum v_i^2      gradient 2 v_i                          *)
(*   "slope" f(v) = - sum v_i      gradient -1                             *)
(***************************************************************************)
ObjFns == {"quad", "slope"}

ObjGrad(f, v) ==
    [i \in 1..Len(v) |-> IF f = "quad" THEN FMul(2, v[i])
                         ELSE IF v[i] = NaN THEN NaN ELSE 0 - 1]

(***************************************************************************)
(* Objective Adapter: the box_objfn lambda.  The result records the one    *)
(* call of the caller's objective it makes: the point passed (at), which   *)
(* gradient slot the callee was handed (slot: the caller's own "grad_out", *)
(* the local copy "grad_obj", or "absent"), and the gradient left in the   *)
(* caller-visible slot (grad_out, <<>> when none was requested).  w and    *)
(* want_grad are the arguments of the call.                                *)
(***************************************************************************)
\* faulty variant: the Jacobian is taken at the bounded-space point
box_objfn_jacob_at_bounded(opt_objfn, S, bounds_type, vals_inp, want_grad) ==
    IF S.vals_bound
    THEN LET vals_inv_trans == inv_transform(vals_inp, bounds_type, S.lower_bounds, S.upper_bounds)
         IN  IF want_grad
             THEN LET grad_obj == ObjGrad(opt_objfn, vals_inv_trans)
                      jacob_vec == jacobian_diag(vals_inv_trans, bounds_type, S.lower_bounds, S.upper_bounds)
                  IN  [w |-> vals_inp, want_grad |-> want_grad, at |-> vals_inv_trans,
                       slot |-> "grad_obj", calls |-> 1,
                       grad_out |-> HadamardProd(jacob_vec, grad_obj)]
             ELSE [w |-> vals_inp, want_grad |-> want_grad, at |-> vals_inv_trans,
                   slot |-> "absent", calls |-> 1, grad_out |-> <<>>]
    ELSE [w |-> vals_inp, want_grad |-> want_grad, at |-> vals_inp, calls |-> 1,
          slot |-> IF want_grad THEN "grad_out" ELSE "absent",
          grad_out |-> IF want_grad THEN ObjGrad(opt_objfn, vals_inp) ELSE <<>>]

box_objfn(opt_objfn, S, bounds_type, vals_inp, want_grad) ==
    IF S.vals_bound
    THEN LET vals_inv_trans == inv_transform(vals_inp, bounds_type, S.lower_bounds, S.upper_bounds)
         IN  IF want_grad
             THEN LET grad_obj == ObjGrad(opt_objfn, vals_inv_trans)
                      jacob_vec == jacobian_diag(vals_inp, bounds_type, S.lower_bounds, S.upper_bounds)
                  IN  [w |-> vals_inp, want_grad |-> want_grad, at |-> vals_inv_trans,
                       slot |-> "grad_obj", calls |-> 1,
                       grad_out |-> HadamardProd(jacob_vec, grad_obj)]
             ELSE [w |-> vals_inp, want_grad |-> want_grad, at |-> vals_inv_trans,
                   slot |-> "absent", calls |-> 1, grad_out |-> <<>>]
    ELSE [w |-> vals_inp, want_grad |-> want_grad, at |-> vals_inp, calls |-> 1,
          slot |-> IF want_grad THEN "grad_out" ELSE "absent",
          grad_out |-> IF want_grad THEN ObjGrad(opt_objfn, vals_inp) ELSE <<>>]

(***************************************************************************)
(* Update Rule (gd_update, spec 4.3).  The result is a set of outcomes     *)
(* [d_p, m, v, evals]: the step, the accumulators after the call and the   *)
(* number of Objective Adapter evaluations the rule made itself.           *)
(*   0      plain:      step_size * grad_p                                 *)
(*   1      momentum:   step_size * (momentum * d + grad_p)                *)
(*   2      look-ahead: as momentum, gradient taken at x - momentum * d    *)
(*   3, 4   single accumulator: v += grad_p^2, step grad_p / sqrt(v)       *)
(*   5..7   dual accumulator:   m += grad_p, v += grad_p^2, step m/sqrt(v) *)
(* A selector outside 0..7 is handed to the rule unvalidated; what it      *)
(* returns then is unspecified.                                            *)
(***************************************************************************)
KnownMethods == 0..7

\* num / (sqrt(acc) + floor), elementwise: the floor only matters for acc = 0
FSqrtVal(a) == IF a = NaN \/ a < 0 THEN NaN ELSE IF a = PInf THEN PInf ELSE RoundSqrt(a)

AdaptiveStep(num, acc) ==
    [i \in 1..Len(num) |->
        IF acc[i] = 0 THEN (IF num[i] = NaN THEN NaN ELSE IF num[i] = 0 THEN 0
                            ELSE IF num[i] > 0 THEN PInf ELSE NInf)
        ELSE FDiv(num[i], FSqrtVal(acc[i]))]

gd_update(vals_inp, grad, grad_p, direc, opt_objfn, S, bounds_type, iter, adam_vec_m, adam_vec_v) ==
    LET gs == S.gd_settings
        blend == VAdd(VScale(gs.par_momentum, direc), grad_p)
        look == box_objfn(opt_objfn, S, bounds_type,
                          VSub(vals_inp, VScale(gs.par_momentum, direc)), TRUE)
        v_new == VAdd(adam_vec_v, HadamardProd(grad_p, grad_p))
        m_new == VAdd(adam_vec_m, grad_p)
    IN  CASE gs.method = 0 ->
               {[d_p |-> VScale(gs.par_step_size, grad_p),
                 m |-> adam_vec_m, v |-> adam_vec_v, evals |-> 0]}
          [] gs.method = 1 ->
               {[d_p |-> VScale(gs.par_step_size, blend),
                 m |-> adam_vec_m, v |-> adam_vec_v, evals |-> 0]}
          [] gs.method = 2 ->
               {[d_p |-> VScale(gs.par_step_size,
                                VAdd(VScale(gs.par_momentum, direc), look.grad_out)),
                 m |-> adam_vec_m, v |-> adam_vec_v, evals |-> 1]}
          [] gs.method \in {3, 4} ->
               {[d_p |-> VScale(gs.par_step_size, AdaptiveStep(grad_p, v_new)),
                 m |-> adam_vec_m, v |-> v_new, evals |-> 0]}
          [] gs.method \in {5, 6, 7} ->
               {[d_p |-> VScale(gs.par_step_size, AdaptiveStep(m_new, v_new)),
                 m |-> m_new, v |-> v_new, evals |-> 0]}
          [] OTHER ->
               {[d_p |-> s, m |-> adam_vec_m, v |-> adam_vec_v, evals |-> 0] :
                    s \in {ZeroVec(Len(vals_inp)), grad_p,
                           [i \in 1..Len(vals_inp) |-> NaN]}}

(***************************************************************************)
(* Gradient Clipper (gradient_clipping, spec 4.4): caps every coordinate   *)
(* at the threshold.                                                       *)
(***************************************************************************)
gradient_clipping(g, gs) ==
    [i \in 1..Len(g) |->
        IF g[i] = NaN THEN NaN
        ELSE IF g[i] > gs.clip_max THEN gs.clip_max
        ELSE IF g[i] < 0 - gs.clip_max THEN 0 - gs.clip_max
        ELSE g[i]]

(***************************************************************************)
(* Error/Result Reporter (error_reporting, spec 2 and 7): writes the final *)
(* point to the caller's vector and decides the result; a run that did not *)
(* converge is a clean false (policy 0) or a hard failure (policy 1).      *)
(***************************************************************************)
error_reporting(x_p, err, err_tol, iter, iter_max, conv_failure_switch) ==
    [out_vals |-> x_p,
     result |-> IF FLe(err, err_tol) /\ iter <= iter_max THEN "true"
                ELSE IF conv_failure_switch = 1 THEN "raise"
                ELSE "false"]

(***************************************************************************)
(* Inputs of a run                                                         *)
(***************************************************************************)
\* the caller's initial vectors
InitVecs == {<<0>>, <<1>>, <<3>>, <<0 - 6>>, <<PInf>>, <<8, 0>>, <<2, 0 - 1>>, <<1, NaN>>}

\* bounds a caller configures for a vector of n coordinates
BoundsFor(n) ==
    {[vals_bound |-> FALSE, lower_bounds |-> <<>>, upper_bounds |-> <<>>]}
    \cup {[vals_bound |-> TRUE,
           lower_bounds |-> [i \in 1..n |-> b[1]],
           upper_bounds |-> [i \in 1..n |-> b[2]]] :
             b \in {<<0, PInf>>, <<NInf, 4>>, <<0, 4>>, <<NInf, PInf>>}}

GdSettingsSet ==
    [method : {0, 1, 2, 3, 5, 8}, clip_grad : BOOLEAN,
     par_step_size : {1}, par_momentum : {1}, clip_max : {1}]

SettingsFor(n) ==
    {[iter_max |-> im, grad_err_tol |-> gt, rel_sol_change_tol |-> rt,
      conv_failure_switch |-> cf, vals_bound |-> b.vals_bound,
      lower_bounds |-> b.lower_bounds, upper_bounds |-> b.upper_bounds,
      gd_settings |-> gs] :
        im \in 0..MaxIter, gt \in {0, 2}, rt \in {0, 1}, cf \in {0, 1},
        b \in BoundsFor(n), gs \in GdSettingsSet}

\* algo_settings_t as default-constructed; the default iteration cap is
\* taken as the largest cap of the model
DefaultSettings ==
    [iter_max |-> MaxIter, grad_err_tol |-> 0, rel_sol_change_tol |-> 0,
     conv_failure_switch |-> 0, vals_bound |-> FALSE,
     lower_bounds |-> <<>>, upper_bounds |-> <<>>,
     gd_settings |-> [method |-> 0, clip_grad |-> FALSE, par_step_size |-> 1,
                      par_momentum |-> 1, clip_max |-> 1]]

(***************************************************************************)
(* State of one call of optim::gd                                          *)
(***************************************************************************)
VARIABLES
    pc,              \* position in gd_basic_impl
    init_out_vals,   \* the caller's in/out vector
    opt_objfn,       \* the caller's objective
    settings_inp,    \* <<>> (nullptr: the 3-argument overload) or <<settings>>
    settings,        \* the local copy of the settings
    bounds_type,
    x, d, adam_vec_m, adam_vec_v,
    grad, grad_p, grad_err, rel_sol_change, iter,
    d_p, x_p,        \* locals of the loop body
    ret,             \* "none" while running, then "true", "false" or "raise"
    \* history, for stating properties
    x0,              \* init_out_vals as passed
    n_objfn,         \* calls of the caller's objective
    n_box,           \* Objective Adapter evaluations made by the driver
    n_upd_evals,     \* Objective Adapter evaluations made inside gd_update
    n_clip,          \* calls of gradient_clipping
    upd_args,        \* the arguments of every gd_update call, in order
    upd_steps,       \* the step every gd_update call returned, in order
    x_hist,          \* the working-space iterates x_0, x_1, ...
    box_call,        \* <<>> or <<the driver's last Objective Adapter call>>
    n_steps          \* steps of the driver taken so far

vars == <<pc, init_out_vals, opt_objfn, settings_inp, settings, bounds_type,
          x, d, adam_vec_m, adam_vec_v, grad, grad_p, grad_err, rel_sol_change,
          iter, d_p, x_p, ret, x0, n_objfn, n_box, n_upd_evals, n_clip,
          upd_args, upd_steps, x_hist, box_call, n_steps>>

inputs == <<opt_objfn, settings_inp, x0>>
locals == <<x, d, adam_vec_m, adam_vec_v, grad, grad_p, grad_err,
            rel_sol_change, iter, d_p, x_p>>
history == <<n_objfn, n_box, n_upd_evals, n_clip, upd_args, upd_steps, x_hist, box_call>>

n_vals == Len(x0)

Fresh ==
    /\ settings = DefaultSettings
    /\ bounds_type = <<>>
    /\ x = <<>> /\ d = <<>> /\ adam_vec_m = <<>> /\ adam_vec_v = <<>>
    /\ grad = <<>> /\ grad_p = <<>> /\ grad_err = 0 /\ rel_sol_change = 0
    /\ iter = 0 /\ d_p = <<>> /\ x_p = <<>>
    /\ ret = "none"
    /\ n_objfn = 0 /\ n_box = 0 /\ n_upd_evals = 0 /\ n_clip = 0
    /\ upd_args = <<>> /\ upd_steps = <<>> /\ x_hist = <<>> /\ box_call = <<>>
    /\ n_steps = 0

\* a call of either overload of optim::gd
Init ==
    /\ pc = "entry"
    /\ init_out_vals \in InitVecs
    /\ x0 = init_out_vals
    /\ opt_objfn \in ObjFns
    /\ settings_inp \in {<<>>} \cup {<<S>> : S \in SettingsFor(Len(init_out_vals))}
    /\ Fresh

(***************************************************************************)
(* gd_basic_impl                                                           *)
(***************************************************************************)
\* the driver's Objective Adapter call box_objfn(w, &g, opt_data)
DriverEval(w) == box_objfn(opt_objfn, settings, bounds_type, w, TRUE)

\* num / (ax + 1.0e-08) for ax = |x_i| >= 0.  The format has no magnitude
\* between 0 and 1: for ax >= 1 the sum rounds to ax, and for ax = 0 the
\* divisor is 1.0e-08 itself, so that a nonzero quotient overflows.
DivAbsEps(num, ax) ==
    IF num = NaN \/ ax = NaN THEN NaN
    ELSE IF ax = 0 THEN (IF num = 0 THEN 0 ELSE IF num > 0 THEN PInf ELSE NInf)
    ELSE FDiv(num, ax)

\* L1NORM( (x_p - x) / (ABS(x) + 1.0e-08) )
RelSolChange(xp, xc) ==
    L1Norm([i \in 1..Len(xc) |-> DivAbsEps(FSub(xp[i], xc[i]), FAbs(xc[i]))])

\* faulty variant: the relative-change criterion is left out of the condition
LoopGuard_norel(gerr, gtol, rchg, rtol, it, itmax) ==
    FGt(gerr, gtol) /\ it < itmax

\* faulty variant: the iteration cap is tested with <= instead of <
LoopGuard_offbyone(gerr, gtol, rchg, rtol, it, itmax) ==
    FGt(gerr, gtol) /\ FGt(rchg, rtol) /\ it <= itmax

\* the while condition
LoopGuard(gerr, gtol, rchg, rtol, it, itmax) ==
    FGt(gerr, gtol) /\ FGt(rchg, rtol) /\ it < itmax

\* faulty variant: only the first coordinate is tested
InputRejected_first(v) == ~IsFiniteVal(v[1])

\* the test that rejects the initial point
InputRejected(v) == ~IsFinite(v)

\* faulty variant: the early return is taken on < instead of <=
InitiallyConverged_strict(gerr, gtol) == gerr # NaN /\ gtol # NaN /\ gerr < gtol

\* the test for the early return after the initial gradient
InitiallyConverged(gerr, gtol) == FLe(gerr, gtol)

\* the accumulators as allocated before the loop
AdamInitM(method, n) == IF method \in {5, 6, 7} THEN ZeroVec(n) ELSE <<>>
AdamInitV(method, n) == IF method \in {3, 4, 5, 6, 7} THEN ZeroVec(n) ELSE <<>>

\* faulty variant: the step is added instead of subtracted
TrialPoint_add(xc, dp) == VAdd(xc, dp)

\* the trial point x_p = x - d_p
TrialPoint(xc, dp) == VSub(xc, dp)

\* faulty variant: the clip_grad flag is ignored
ClipStep_always(g, gs) == gradient_clipping(g, gs)

\* the gradient after the optional clipping of the loop body
ClipStep(g, gs) == IF gs.clip_grad THEN gradient_clipping(g, gs) ELSE g

\* settings copy, bounds classification and the finiteness check
GdEntry ==
    /\ pc = "entry"
    /\ n_steps' = n_steps + 1
    /\ LET S == IF settings_inp = <<>> THEN DefaultSettings ELSE settings_inp[1]
       IN  /\ settings' = S
           /\ bounds_type' = determine_bounds_type(S.vals_bound, n_vals,
                                                   S.lower_bounds, S.upper_bounds)
    /\ IF InputRejected(init_out_vals)
       THEN pc' = "done" /\ ret' = "false"
       ELSE pc' = "init" /\ ret' = ret
    /\ UNCHANGED <<init_out_vals, inputs, locals, history>>

\* x, d, the accumulators, and the move into working space
Initialize ==
    /\ pc = "init"
    /\ n_steps' = n_steps + 1
    /\ x' = IF settings.vals_bound
            THEN transform(init_out_vals, bounds_type,
                           settings.lower_bounds, settings.upper_bounds)
            ELSE init_out_vals
    /\ d' = ZeroVec(n_vals)
    /\ adam_vec_m' = AdamInitM(settings.gd_settings.method, n_vals)
    /\ adam_vec_v' = AdamInitV(settings.gd_settings.method, n_vals)
    /\ x_hist' = <<x'>>
    /\ pc' = "eval_init"
    /\ UNCHANGED <<init_out_vals, inputs, settings, bounds_type, grad, grad_p,
                   grad_err, rel_sol_change, iter, d_p, x_p, ret,
                   n_objfn, n_box, n_upd_evals, n_clip, upd_args, upd_steps, box_call>>

\* the initial gradient and the early return
EvalInitGrad ==
    /\ pc = "eval_init"
    /\ n_steps' = n_steps + 1
    /\ LET c == DriverEval(x)
           e == L2Norm(c.grad_out)
       IN  /\ grad' = c.grad_out
           /\ grad_err' = e
           /\ box_call' = <<c>>
           /\ n_box' = n_box + 1
           /\ n_objfn' = n_objfn + c.calls
           /\ IF InitiallyConverged(e, settings.grad_err_tol)
              THEN /\ pc' = "done" /\ ret' = "true"
                   /\ UNCHANGED <<grad_p, rel_sol_change, iter>>
              ELSE /\ pc' = "loop_test" /\ ret' = ret
                   /\ grad_p' = c.grad_out
                   /\ rel_sol_change' = 1
                   /\ iter' = 0
    /\ UNCHANGED <<init_out_vals, inputs, settings, bounds_type, x, d, adam_vec_m,
                   adam_vec_v, d_p, x_p, n_upd_evals, n_clip, upd_args, upd_steps, x_hist>>

LoopTest ==
    /\ pc = "loop_test"
    /\ n_steps' = n_steps + 1
    /\ pc' = IF LoopGuard(grad_err, settings.grad_err_tol, rel_sol_change,
                          settings.rel_sol_change_tol, iter, settings.iter_max)
             THEN "step" ELSE "finish"
    /\ UNCHANGED <<init_out_vals, inputs, settings, bounds_type, locals, ret, history>>

\* ++iter, the Update Rule, the trial point, and grad = grad_p
Step ==
    /\ pc = "step"
    /\ n_steps' = n_steps + 1
    /\ iter' = iter + 1
    /\ \E u \in gd_update(x, grad, grad_p, d, opt_objfn, settings, bounds_type,
                          iter + 1, adam_vec_m, adam_vec_v) :
         /\ d_p' = u.d_p
         /\ x_p' = TrialPoint(x, u.d_p)
         /\ adam_vec_m' = u.m
         /\ adam_vec_v' = u.v
         /\ n_upd_evals' = n_upd_evals + u.evals
         /\ n_objfn' = n_objfn + u.evals
         /\ upd_steps' = Append(upd_steps, u.d_p)
    /\ upd_args' = Append(upd_args, [x |-> x, grad |-> grad, grad_p |-> grad_p,
                                     d |-> d, iter |-> iter + 1])
    /\ grad' = grad_p
    /\ pc' = "eval_trial"
    /\ UNCHANGED <<init_out_vals, inputs, settings, bounds_type, x, d, grad_p,
                   grad_err, rel_sol_change, ret, n_box, n_clip, x_hist, box_call>>

\* the gradient at the trial point
EvalTrial ==
    /\ pc = "eval_trial"
    /\ n_steps' = n_steps + 1
    /\ LET c == DriverEval(x_p)
       IN  /\ grad_p' = c.grad_out
           /\ box_call' = <<c>>
           /\ n_box' = n_box + 1
           /\ n_objfn' = n_objfn + c.calls
    /\ pc' = "clip"
    /\ UNCHANGED <<init_out_vals, inputs, settings, bounds_type, x, d, adam_vec_m,
                   adam_vec_v, grad, grad_err, rel_sol_change, iter, d_p, x_p, ret,
                   n_upd_evals, n_clip, upd_args, upd_steps, x_hist>>

Clip ==
    /\ pc = "clip"
    /\ n_steps' = n_steps + 1
    /\ grad_p' = ClipStep(grad_p, settings.gd_settings)
    /\ n_clip' = IF settings.gd_settings.clip_grad THEN n_clip + 1 ELSE n_clip
    /\ pc' = "advance"
    /\ UNCHANGED <<init_out_vals, inputs, settings, bounds_type, x, d, adam_vec_m,
                   adam_vec_v, grad, grad_err, rel_sol_change, iter, d_p, x_p, ret,
                   n_objfn, n_box, n_upd_evals, upd_args, upd_steps, x_hist, box_call>>

\* both criteria, then d = d_p and x = x_p
Advance ==
    /\ pc = "advance"
    /\ n_steps' = n_steps + 1
    /\ grad_err' = L2Norm(grad_p)
    /\ rel_sol_change' = RelSolChange(x_p, x)
    /\ d' = d_p
    /\ x' = x_p
    /\ x_hist' = Append(x_hist, x_p)
    /\ pc' = "loop_test"
    /\ UNCHANGED <<init_out_vals, inputs, settings, bounds_type, adam_vec_m,
                   adam_vec_v, grad, grad_p, iter, d_p, x_p, ret,
                   n_objfn, n_box, n_upd_evals, n_clip, upd_args, upd_steps, box_call>>

\* back to the caller's space, and the reporter
Finish ==
    /\ pc = "finish"
    /\ n_steps' = n_steps + 1
    /\ LET xf == IF settings.vals_bound
                 THEN inv_transform(x, bounds_type, settings.lower_bounds,
                                    settings.upper_bounds)
                 ELSE x
           r == error_reporting(xf, grad_err, settings.grad_err_tol, iter,
                                settings.iter_max, settings.conv_failure_switch)
       IN  /\ x' = xf
           /\ init_out_vals' = r.out_vals
           /\ ret' = r.result
    /\ pc' = "done"
    /\ UNCHANGED <<inputs, settings, bounds_type, d, adam_vec_m, adam_vec_v, grad,
                   grad_p, grad_err, rel_sol_change, iter, d_p, x_p, history>>

Next ==
    \/ GdEntry
    \/ Initialize
    \/ EvalInitGrad
    \/ LoopTest
    \/ Step
    \/ EvalTrial
    \/ Clip
    \/ Advance
    \/ Finish

Spec == Init /\ [][Next]_vars

TypeOK ==
    /\ pc \in {"entry", "init", "eval_init", "loop_test", "step", "eval_trial",
               "clip", "advance", "finish", "done"}
    /\ ret \in {"none", "true", "false", "raise"}
    /\ iter \in 0..MaxIter
    /\ grad_err \in Val /\ rel_sol_change \in Val
    /\ \A i \in 1..Len(x) : x[i] \in Val

(***************************************************************************)
(* The Objective Adapter on its own: any caller of the box_objfn lambda    *)
(* (the driver, or an Update Rule that was handed it) at any working-space *)
(* point, with or without a gradient slot.                                 *)
(***************************************************************************)
\* calls of the adapter followed in one behaviour
MaxCalls == 2

AdapterDims == {1, 2}

\* working-space points the adapter is called at
WorkVecs(n) ==
    IF n = 1 THEN [1..1 -> Val]
    ELSE [1..n -> {0 - 1, 0, 2, PInf}]

InitAdapter ==
    /\ pc = "adapter"
    /\ \E n \in AdapterDims :
         /\ init_out_vals = ZeroVec(n)
         /\ \E b \in BoundsFor(n) :
              /\ settings = [DefaultSettings EXCEPT !.vals_bound = b.vals_bound,
                                                    !.lower_bounds = b.lower_bounds,
                                                    !.upper_bounds = b.upper_bounds]
              /\ bounds_type = determine_bounds_type(b.vals_bound, n, b.lower_bounds,
                                                     b.upper_bounds)
    /\ x0 = init_out_vals
    /\ settings_inp = <<settings>>
    /\ opt_objfn \in ObjFns
    /\ x = <<>> /\ d = <<>> /\ adam_vec_m = <<>> /\ adam_vec_v = <<>>
    /\ grad = <<>> /\ grad_p = <<>> /\ grad_err = 0 /\ rel_sol_change = 0
    /\ iter = 0 /\ d_p = <<>> /\ x_p = <<>>
    /\ ret = "none"
    /\ n_objfn = 0 /\ n_box = 0 /\ n_upd_evals = 0 /\ n_clip = 0
    /\ upd_args = <<>> /\ upd_steps = <<>> /\ x_hist = <<>> /\ box_call = <<>>
    /\ n_steps = 0

AdapterCall ==
    /\ pc = "adapter"
    /\ n_steps' = n_steps + 1
    /\ n_box < MaxCalls
    /\ \E w \in WorkVecs(n_vals), want_grad \in BOOLEAN :
         LET c == box_objfn(opt_objfn, settings, bounds_type, w, want_grad)
         IN  /\ box_call' = <<c>>
             /\ n_objfn' = n_objfn + c.calls
             /\ grad' = IF want_grad THEN c.grad_out ELSE grad
    /\ n_box' = n_box + 1
    /\ UNCHANGED <<pc, init_out_vals, inputs, settings, bounds_type, x, d, adam_vec_m,
                   adam_vec_v, grad_p, grad_err, rel_sol_change, iter, d_p, x_p, ret,
                   n_upd_evals, n_clip, upd_args, upd_steps, x_hist>>

SpecAdapter == InitAdapter /\ [][AdapterCall]_vars

(***************************************************************************)
(* Properties                                                              *)
(***************************************************************************)
Started == pc \notin {"entry", "init", "eval_init", "adapter"}
InLoopBody == pc \in {"step", "eval_trial", "clip", "advance"}

\* the gradient the Objective Adapter gives at the working-space point w
AdapterGrad(w) ==
    IF settings.vals_bound
    THEN HadamardProd(
             jacobian_diag(w, bounds_type, settings.lower_bounds, settings.upper_bounds),
             ObjGrad(opt_objfn, inv_transform(w, bounds_type, settings.lower_bounds,
                                              settings.upper_bounds)))
    ELSE ObjGrad(opt_objfn, w)

\* the gradient at the starting point x_0 (working space)
InitialGradient == AdapterGrad(x_hist[1])

Clipped(g) ==
    IF settings.gd_settings.clip_grad
    THEN gradient_clipping(g, settings.gd_settings) ELSE g

\* C1: a run whose initial vector has a non-finite coordinate returns false
\* before any iteration: it never leaves the entry check except to return,
\* the objective and the Update Rule are never called, the Objective Adapter
\* is never evaluated, and the caller's vector is left as passed.
C1_NonFiniteInputRejected ==
    ~IsFinite(x0) =>
        /\ pc \in {"entry", "done"}
        /\ (pc = "done" => ret = "false")
        /\ n_objfn = 0 /\ n_box = 0 /\ n_upd_evals = 0
        /\ upd_args = <<>> /\ iter = 0
        /\ init_out_vals = x0

C1_Witness ==
    /\ pc = "done" /\ ret = "false"
    /\ ~IsFinite(x0) /\ IsFiniteVal(x0[1])
    /\ settings_inp # <<>>

\* C2: when the point is finite and the gradient at the starting point has
\* L2 norm <= grad_err_tol, the run returns true at once: no Update Rule
\* call, no iteration, exactly one evaluation of the objective, whatever the
\* other settings are.
C2_InitialConvergence ==
    (Started /\ IsFinite(x0) /\ FLe(L2Norm(InitialGradient), settings.grad_err_tol)) =>
        /\ pc = "done" /\ ret = "true"
        /\ upd_args = <<>> /\ iter = 0 /\ n_clip = 0
        /\ n_objfn = 1 /\ n_box = 1
        /\ init_out_vals = x0

\* the early return with the norm equal to a positive tolerance and a
\* positive iteration cap
C2_Witness ==
    /\ pc = "done" /\ ret = "true" /\ n_objfn = 1
    /\ L2Norm(InitialGradient) = settings.grad_err_tol
    /\ settings.grad_err_tol > 0
    /\ settings.iter_max > 0

\* the relative solution change of the last step taken (1 before the first)
LastRelChange ==
    IF Len(x_hist) = 1 THEN 1
    ELSE RelSolChange(x_hist[Len(x_hist)], x_hist[Len(x_hist) - 1])

\* the three conditions for a further iteration, on the current gradient,
\* the last step taken and the iteration count
AllThreeHold ==
    /\ FGt(L2Norm(grad_p), settings.grad_err_tol)
    /\ FGt(LastRelChange, settings.rel_sol_change_tol)
    /\ iter < settings.iter_max

\* C3: at every iteration boundary a further pass of the loop is made if and
\* only if the gradient norm is > grad_err_tol, the last relative change is
\* > rel_sol_change_tol (1 before the first pass) and iter < iter_max;
\* otherwise the loop exits, and after the exit the driver makes no further
\* Update Rule call and no further Objective Adapter evaluation.
C3_LoopContinuesIffAllThree ==
    [][ /\ (pc = "loop_test" => /\ pc' \in {"step", "finish"}
                                /\ (pc' = "step") <=> AllThreeHold)
        /\ (pc \in {"finish", "done"} =>
                /\ pc' \in {"finish", "done"}
                /\ upd_args' = upd_args
                /\ n_box' = n_box
                /\ n_upd_evals' = n_upd_evals) ]_vars

\* the loop left on the relative-change criterion alone
C3_Witness ==
    /\ pc = "finish" /\ iter >= 1
    /\ FGt(grad_err, settings.grad_err_tol)
    /\ iter < settings.iter_max
    /\ ~FGt(rel_sol_change, settings.rel_sol_change_tol)

\* the result the non-convergence policy gives
PolicyResult == IF settings.conv_failure_switch = 1 THEN "raise" ELSE "false"

\* C4: with iter_max = 0, a finite starting point and an initial gradient
\* norm above grad_err_tol, the loop makes no pass: no Update Rule call, x is
\* still the starting point in working space and iter = 0 when the reporter
\* is called with the initial gradient norm, and the result is the one the
\* non-convergence policy gives.
C4_ZeroIterationCap ==
    (/\ Started /\ IsFinite(x0)
     /\ settings.iter_max = 0
     /\ FGt(L2Norm(InitialGradient), settings.grad_err_tol)) =>
        /\ pc \in {"loop_test", "finish", "done"}
        /\ iter = 0 /\ upd_args = <<>> /\ n_box = 1 /\ n_clip = 0
        /\ grad_err = L2Norm(InitialGradient)
        /\ (pc # "done" => x = x_hist[1])
        /\ (pc = "done" => ret = PolicyResult)

C4_Witness ==
    /\ pc = "done" /\ ret = "raise"
    /\ settings.iter_max = 0
    /\ IsFinite(x0)
    /\ FGt(L2Norm(InitialGradient), settings.grad_err_tol)
    /\ iter = 0 /\ upd_args = <<>>

\* C5: in a run whose initial point passed the finiteness check (and whose
\* starting point in working space is finite), the position vector x is
\* finite in every state.
C5_PositionAlwaysFinite ==
    (pc \notin {"entry", "init", "adapter"} /\ IsFinite(x0) /\ IsFinite(x_hist[1])) =>
        IsFinite(x)

\* C6: a run whose update-rule selector names no known variant does not
\* enter the iteration loop and does not call the Update Rule.
C6_UnknownMethodRejected ==
    (pc \notin {"entry", "adapter"} /\ settings.gd_settings.method \notin KnownMethods) =>
        /\ ~InLoopBody
        /\ upd_args = <<>>

\* C7: every call of the Objective Adapter at a working-space point w calls
\* the caller's objective exactly once; with bounds inactive at w itself,
\* with the caller's gradient slot passed through; with bounds active at
\* inv_transform(w), and the gradient written back is the elementwise
\* product of the Jacobian diagonal at w with the bounded-space gradient
\* of the objective, or, when none is requested, the objective is
\* called with no gradient slot.
C7_AdapterContract ==
    box_call # <<>> =>
        LET c == box_call[1]
            lb == settings.lower_bounds
            ub == settings.upper_bounds
            bounded == inv_transform(c.w, bounds_type, lb, ub)
        IN  /\ c.calls = 1
            /\ n_objfn = n_box
            /\ IF ~settings.vals_bound
               THEN /\ c.at = c.w
                    /\ c.slot = (IF c.want_grad THEN "grad_out" ELSE "absent")
                    /\ c.grad_out = (IF c.want_grad THEN ObjGrad(opt_objfn, c.w) ELSE <<>>)
               ELSE /\ c.at = bounded
                    /\ IF c.want_grad
                       THEN c.grad_out =
                                HadamardProd(jacobian_diag(c.w, bounds_type, lb, ub),
                                             ObjGrad(opt_objfn, bounded))
                       ELSE c.slot = "absent" /\ c.grad_out = <<>>

\* a call with bounds active and a gradient requested, where the bounded
\* point differs from w and the Jacobian at w from the Jacobian at that point
C7_Witness ==
    /\ pc = "adapter" /\ box_call # <<>>
    /\ settings.vals_bound
    /\ box_call[1].want_grad
    /\ box_call[1].at # box_call[1].w
    /\ Len(box_call[1].w) = 2
    /\ IsFinite(box_call[1].grad_out)
    /\ jacobian_diag(box_call[1].w, bounds_type, settings.lower_bounds, settings.upper_bounds)
         # jacobian_diag(box_call[1].at, bounds_type, settings.lower_bounds, settings.upper_bounds)

\* the gradient the driver's last Objective Adapter call wrote
LastAdapterGrad == box_call[1].grad_out

\* C8: clipping is applied to the post-step gradient only.  With clip_grad
\* set, the gradient of every trial point is clipped exactly once, after it
\* is evaluated and before the gradient-norm criterion is computed from it
\* and before it serves as the next pass's gradient; the initial gradient is
\* never clipped; with clip_grad unset the clipper is never called and every
\* gradient is used as the Objective Adapter returned it.
C8_ClipOnlyPostStep ==
    (pc \notin {"adapter"} /\ n_box >= 1) =>
        /\ n_clip = (IF ~settings.gd_settings.clip_grad THEN 0
                     ELSE IF pc = "clip" THEN n_box - 2
                     ELSE n_box - 1)
        /\ (pc = "clip" => grad_p = LastAdapterGrad)
        /\ (n_box = 1 =>
               /\ grad = LastAdapterGrad
               /\ grad_err = L2Norm(LastAdapterGrad)
               /\ (pc \in {"loop_test", "step", "finish"} => grad_p = LastAdapterGrad))
        /\ ((pc = "advance") => grad_p = Clipped(LastAdapterGrad))
        /\ ((n_box >= 2 /\ pc \in {"loop_test", "step", "finish", "done"}) =>
               /\ grad_p = Clipped(LastAdapterGrad)
               /\ grad_err = L2Norm(Clipped(LastAdapterGrad)))
        /\ ((n_box >= 2 /\ pc = "eval_trial") => grad = Clipped(LastAdapterGrad))

\* a pass in which the clipper changed the gradient of the trial point,
\* after an initial gradient that it would have changed too
C8_Witness ==
    /\ pc = "loop_test" /\ iter = 2
    /\ settings.gd_settings.clip_grad
    /\ grad_p # LastAdapterGrad
    /\ InitialGradient # gradient_clipping(InitialGradient, settings.gd_settings)
    /\ n_clip = 2

C9_Counters ==
    /\ 0 <= iter /\ iter <= settings.iter_max
    /\ Len(upd_args) = iter
    /\ \A k \in 1..Len(upd_args) : upd_args[k].iter = k
    /\ ((IsFinite(x0) /\ pc \in {"loop_test", "finish", "done"}) => n_box = iter + 1)
    /\ ((IsFinite(x0) /\ pc \in {"step"}) => n_box = iter + 1)
    /\ ((IsFinite(x0) /\ pc \in {"eval_trial"}) => n_box = iter)

\* a bound on the steps the driver has left, by position and iteration count
PcRank ==
    [p \in {"entry", "init", "eval_init", "loop_test", "step", "eval_trial",
            "clip", "advance", "finish", "done", "adapter"} |->
        CASE p = "entry" -> 8 [] p = "init" -> 7 [] p = "eval_init" -> 6
          [] p = "eval_trial" -> 5 [] p = "clip" -> 4 [] p = "advance" -> 3
          [] p = "loop_test" -> 2 [] p = "step" -> 1 [] p = "finish" -> 1
          [] OTHER -> 0]
StepsLeft == 5 * (settings.iter_max - iter) + PcRank[pc]

\* the driver can take a step: it is at a position before the return, and
\* at the Update Rule call the rule returns
CanStep ==
    /\ pc \in {"entry", "init", "eval_init", "loop_test", "step", "eval_trial",
               "clip", "advance", "finish"}
    /\ (pc = "step" =>
           gd_update(x, grad, grad_p, d, opt_objfn, settings, bounds_type,
                     iter + 1, adam_vec_m, adam_vec_v) # {})

\* C9: every run terminates (until it has returned the driver can take a
\* step, and the steps taken plus a bound on the steps left never exceed
\* 5 * iter_max + 8); in every state 0 <= iter <= iter_max; the Update Rule
\* has been called exactly iter times, with the iteration arguments
\* 1, 2, ..., iter; and a run that passed input validation has made
\* iter + 1 Objective Adapter evaluations of its own when it ends.
C9_TerminatesWithinCap ==
    /\ (pc = "done" \/ CanStep)
    /\ StepsLeft >= 0
    /\ (pc # "entry" => n_steps + StepsLeft <= 5 * settings.iter_max + 8)
    /\ C9_Counters

\* a run that used up a positive iteration cap
C9_Witness ==
    /\ pc = "done" /\ iter = settings.iter_max /\ iter >= 2
    /\ n_box = iter + 1
    /\ n_upd_evals >= 1

\* the gradient the driver holds for the iterate x_j, j >= 0: as the
\* Objective Adapter returned it for x_0, clipped when enabled for j >= 1
HeldGradient(j) ==
    IF j = 0 THEN AdapterGrad(x_hist[1]) ELSE Clipped(AdapterGrad(x_hist[j + 1]))

\* what every Update Rule call is handed, but for the previous-step argument
UpdateArgsBut_d(k) ==
    LET a == upd_args[k]
    IN  /\ a.iter = k
        /\ a.x = x_hist[k]
        /\ a.grad_p = HeldGradient(k - 1)
        /\ a.grad = (IF k = 1 THEN a.grad_p ELSE HeldGradient(k - 2))
        /\ (k < Len(x_hist) => x_hist[k + 1] = VSub(x_hist[k], upd_steps[k]))
        /\ (k = Len(x_hist) => x_p = VSub(x_hist[k], upd_steps[k]))

\* C10 as stated: at the Update Rule call of iteration k the position is
\* x_{k-1}, grad_p the gradient held for x_{k-1}, grad the gradient held for
\* x_{k-2} (grad_p when k = 1), the previous-step argument d equals
\* x_{k-2} - x_{k-1} (zero when k = 1), and x_k = x_{k-1} - d_p.
C10_AsStated ==
    \A k \in 1..Len(upd_args) :
        /\ UpdateArgsBut_d(k)
        /\ upd_args[k].d = (IF k = 1 THEN ZeroVec(n_vals)
                            ELSE VSub(x_hist[k - 1], x_hist[k]))

\* C10, amended: as stated, except that the previous-step argument d is the
\* step d_p the previous Update Rule call returned (zero when k = 1), from
\* which x_{k-1} was computed as x_{k-2} - d; the difference x_{k-2} - x_{k-1}
\* recomputed from the iterates need not equal it, since each subtraction
\* is rounded.
C10_UpdateArguments ==
    \A k \in 1..Len(upd_args) :
        /\ UpdateArgsBut_d(k)
        /\ upd_args[k].d = (IF k = 1 THEN ZeroVec(n_vals) ELSE upd_steps[k - 1])
        /\ (k >= 2 => x_hist[k] = VSub(x_hist[k - 1], upd_args[k].d))

\* a second Update Rule call, after a clipped gradient, with finite
\* iterates whose recomputed difference is not the step that was taken
C10_Witness ==
    /\ Len(upd_args) = 2
    /\ settings.gd_settings.clip_grad
    /\ IsFinite(x_hist[1]) /\ IsFinite(x_hist[2]) /\ IsFinite(upd_args[2].d)
    /\ upd_args[2].d # VSub(x_hist[1], x_hist[2])
    /\ upd_args[2].grad # upd_args[2].grad_p

====
